---- MODULE Spec2Model ----
(***************************************************************************)
(* Model of the upload-validation core of social-event:                   *)
(*   src/utils/functions.js   extractFileMetadata, validateFileCreationTime,*)
(*                            validateEventTimes                           *)
(*   src/unnamed/part_000     uploadFile, getAllUploads (upload controller) *)
(*                                                                         *)
(* JavaScript values are modelled as follows.                              *)
(*   - an object is a record; a property that is absent (undefined) is a   *)
(*     field that is not in the record's DOMAIN;                           *)
(*   - a Date is [kind |-> "Date", ms |-> n] (n = getTime()) or            *)
(*     [kind |-> "InvalidDate"] (getTime() is NaN); null is                *)
(*     [kind |-> "null"]; a number that may be NaN is [kind |-> "number",  *)
(*     n |-> k] or [kind |-> "NaN"];                                       *)
(*   - a MIME string "type/subtype" is [type |-> t, subtype |-> s]; a      *)
(*     string without a slash is [type |-> t];                             *)
(*   - a string handed to new Date(...) is [parses |-> TRUE, ms |-> n]     *)
(*     when Date parsing accepts it and [parses |-> FALSE] otherwise.      *)
(***************************************************************************)
EXTENDS Integers, Sequences, FiniteSets, TLC

VARIABLES
    call,          \* arguments (and clock reading) of the last extractFileMetadata call
    extracted,     \* what that call produced: a thrown error or the returned metadata
    timeCall,      \* arguments of the last validateFileCreationTime call
    timeResult,    \* what that call produced
    eventCall,     \* arguments (and clock reading) of the last validateEventTimes call
    eventResult,   \* the validations object it returned
    uploads,       \* the uploads collection: number of stored records per access token
    request,       \* the last request handled by the upload controller
    response       \* the response it sent

vars == <<call, extracted, timeCall, timeResult, eventCall, eventResult,
          uploads, request, response>>

fileVars == <<call, extracted, timeCall, timeResult>>
eventVars == <<eventCall, eventResult>>
uploadVars == <<uploads, request, response>>

(***************************************************************************)
(* Bounds of the model                                                     *)
(***************************************************************************)
\* timestamps are drawn every half minute from 0 to MaxTick half minutes
MaxTick == 4
\* at most this many of the four EXIF date tags are present in a payload
MaxExifTags == 2
\* event dates are drawn from 1970-01-01 .. 1970-01-MaxDay
MaxDay == 3
\* event times are drawn from 00:00 .. 00:MaxMinute
MaxMinute == 2
\* the clock is read at midnight of a drawn day plus 0..MaxNowTick half minutes
MaxNowTick == 3
\* the uploads collection holds at most MaxUploads records per access token
MaxUploads == 21
\* a request uploads at most MaxFilesPerRequest files
MaxFilesPerRequest == 2
\* pages 1..MaxPage are asked for
MaxPage == 2

(***************************************************************************)
(* JavaScript values                                                       *)
(***************************************************************************)
Null == [kind |-> "null"]
InvalidDate == [kind |-> "InvalidDate"]
DateOf(ms) == [kind |-> "Date", ms |-> ms]
NaN == [kind |-> "NaN"]
Num(n) == [kind |-> "number", n |-> n]

None == [kind |-> "none"]

MsPerMinute == 1000 * 60
BytesPerMB == 1024 * 1024
Tick == MsPerMinute \div 2

\* new Date(value) for a string value
NewDate(value) == IF value.parses THEN DateOf(value.ms) ELSE InvalidDate

\* !value for an object reference or null
IsNullish(value) == value.kind = "null"

\* isNaN(date.getTime())
IsNaNTime(date) == date.kind = "InvalidDate"

Mime(t, s) == [type |-> t, subtype |-> s]

\* mimetype.startsWith('image/')
StartsWithImage(mimetype) ==
    /\ "subtype" \in DOMAIN mimetype
    /\ mimetype.type = "image"

\* array.includes(x)
Includes(array, x) == \E i \in 1..Len(array) : array[i] = x

(***************************************************************************)
(* DEFAULT_VALIDATION_CONFIG                                               *)
(***************************************************************************)
DEFAULT_VALIDATION_CONFIG ==
    [ maxFileSizeInMB      |-> 10,
      minImageWidth        |-> 800,
      minImageHeight       |-> 600,
      timeBufferMinutes    |-> 60,
      allowedMimeTypes     |-> << Mime("image", "jpeg"), Mime("image", "png"),
                                  [type |-> "IMG_"],
                                  Mime("image", "heic"), Mime("image", "heif") >>,
      requireOriginalPhoto |-> FALSE ]

(***************************************************************************)
(* extractFileMetadata                                                     *)
(***************************************************************************)
SizeError == "File size exceeds maximum allowed size"
TypeError == "File type is not allowed"
OriginalPhotoError == "Could not verify original photo creation time"
NoExifWarning == "No EXIF data found"
CurrentTimeWarning == "Using current time as creation time"

dateFields == << "DateTimeOriginal", "CreateDate", "ModifyDate", "DateTime" >>

Throw(message) == [threw |-> TRUE, message |-> message]
Return(value) == [threw |-> FALSE, value |-> value]

\* (mutation of ScanDateFields: no break, the last parseable field wins)
RECURSIVE ScanDateFieldsNoBreak(_, _)
ScanDateFieldsNoBreak(tags, i) ==
    IF i > 4 THEN [kind |-> "null"]
    ELSE LET field == << "DateTimeOriginal", "CreateDate", "ModifyDate", "DateTime" >>[i]
             later == ScanDateFieldsNoBreak(tags, i + 1)
         IN  IF later.kind # "null" THEN later
             ELSE IF /\ field \in DOMAIN tags
                     /\ "description" \in DOMAIN tags[field]
                     /\ tags[field].description.parses
                  THEN [kind |-> "Date", ms |-> tags[field].description.ms]
                  ELSE [kind |-> "null"]

\* the for loop over dateFields: the Date of the first field that is present with
\* a description that parses, null if the loop ends without a break
RECURSIVE ScanDateFields(_, _)
ScanDateFields(tags, i) ==
    IF i > Len(dateFields) THEN Null
    ELSE LET field == dateFields[i] IN
         IF /\ field \in DOMAIN tags
            /\ "description" \in DOMAIN tags[field]
            /\ ~IsNaNTime(NewDate(tags[field].description))
         THEN NewDate(tags[field].description)
         ELSE ScanDateFields(tags, i + 1)

\* parseInt(description) / 100, kept in hundredths; a description is the
\* integer its leading digits spell
ParseIntOver100(description) == [kind |-> "hundredths", n |-> description]

\* the try block around ExifReader.load: what it leaves in createdAt,
\* possibleCreationSources, qualityScore and the camera fields, and whether the
\* catch ran
ReadExif(data) ==
    IF ~data.readable
    THEN [createdAt |-> Null, sources |-> <<>>, caught |-> TRUE,
          extra |-> [qualityScore |-> Null]]
    ELSE LET tags == data.tags
             parsedDate == ScanDateFields(tags, 1)
             found == ~IsNullish(parsedDate)
             quality == [qualityScore |->
                            IF found /\ "Quality" \in DOMAIN tags
                            THEN ParseIntOver100(tags.Quality.description)
                            ELSE Null]
             make == IF "Make" \in DOMAIN tags
                     THEN [cameraMake |-> tags.Make.description] ELSE <<>>
             model == IF "Model" \in DOMAIN tags
                      THEN [cameraModel |-> tags.Model.description] ELSE <<>>
             iso == IF "ISO" \in DOMAIN tags
                    THEN [iso |-> tags.ISO.description] ELSE <<>>
         IN  [createdAt |-> parsedDate,
              sources |-> IF found THEN << "EXIF" >> ELSE <<>>,
              caught |-> FALSE,
              extra |-> quality @@ make @@ model @@ iso]

\* (mutation of ExifWarnings: the warning is also pushed when the read found no
\* usable date)
ExifWarningsWhenNothingUsable(exif) ==
    IF exif.caught \/ exif.createdAt.kind = "null"
    THEN << "No EXIF data found" >> ELSE <<>>

\* the catch block of the EXIF read pushes its warning
ExifWarnings(exif) == IF exif.caught THEN << NoExifWarning >> ELSE <<>>

\* if (!file.name || !file.mimetype || !file.size || !file.data)
MissingRequired(file) ==
    \/ "name" \notin DOMAIN file
    \/ "mimetype" \notin DOMAIN file
    \/ "size" \notin DOMAIN file \/ file.size = 0
    \/ "data" \notin DOMAIN file

\* if (!metadata.createdAt && file.lastModifiedDate)
UsesLastModified(createdAt, file) ==
    /\ IsNullish(createdAt)
    /\ "lastModifiedDate" \in DOMAIN file

\* the branch taken inside the current-time fallback
CurrentTimeFindings(config) ==
    IF config.requireOriginalPhoto
    THEN [errors |-> << OriginalPhotoError >>, warnings |-> <<>>]
    ELSE [errors |-> <<>>, warnings |-> << CurrentTimeWarning >>]

extractFileMetadata(args) ==
    IF "file" \notin DOMAIN args
    THEN Throw("Missing required parameter - file")
    ELSE
    LET file == args.file
        config == args.config
    IN
    IF MissingRequired(file)
    THEN Throw("Invalid file object - missing required properties")
    ELSE
    LET sizeErrors == IF file.size > config.maxFileSizeInMB * BytesPerMB
                      THEN << SizeError >> ELSE <<>>
        typeErrors == IF ~Includes(config.allowedMimeTypes, file.mimetype)
                      THEN << TypeError >> ELSE <<>>
        exif == IF StartsWithImage(file.mimetype)
                THEN ReadExif(file.data)
                ELSE [createdAt |-> Null, sources |-> <<>>, caught |-> FALSE,
                      extra |-> [qualityScore |-> Null]]
        useLastModified == UsesLastModified(exif.createdAt, file)
        createdAt2 == IF useLastModified
                      THEN NewDate(file.lastModifiedDate) ELSE exif.createdAt
        sources2 == IF useLastModified
                    THEN Append(exif.sources, "lastModifiedDate") ELSE exif.sources
        useCurrent == IsNullish(createdAt2)
        current == IF useCurrent THEN CurrentTimeFindings(config)
                   ELSE [errors |-> <<>>, warnings |-> <<>>]
    IN Return(
        [ originalName |-> file.name,
          mimetype |-> file.mimetype,
          size |-> file.size,
          dimensions |-> Null,
          possibleCreationSources |->
              IF useCurrent THEN Append(sources2, "current") ELSE sources2,
          createdAt |-> IF useCurrent THEN DateOf(args.now) ELSE createdAt2,
          validationErrors |-> sizeErrors \o typeErrors \o current.errors,
          validationWarnings |-> ExifWarnings(exif) \o current.warnings ]
        @@ exif.extra)

(***************************************************************************)
(* validateFileCreationTime                                                *)
(***************************************************************************)
\* a < b, a <= b on Dates: a comparison of the getTime() values, false when
\* either is NaN
DateLt(a, b) == a.kind = "Date" /\ b.kind = "Date" /\ a.ms < b.ms
DateLe(a, b) == a.kind = "Date" /\ b.kind = "Date" /\ a.ms <= b.ms

\* (mutation of FloorMinutesBetween: Math.round in place of Math.floor)
RoundMinutesBetween(a, b) ==
    IF a.kind = "Date" /\ b.kind = "Date"
    THEN [kind |-> "number", n |-> (a.ms - b.ms + MsPerMinute \div 2) \div MsPerMinute]
    ELSE [kind |-> "NaN"]

\* Math.floor((a - b) / (1000 * 60)) on Dates
FloorMinutesBetween(a, b) ==
    IF a.kind = "Date" /\ b.kind = "Date"
    THEN Num((a.ms - b.ms) \div MsPerMinute)
    ELSE NaN

\* new Date(eventStart.getTime() - config.timeBufferMinutes * 60 * 1000)
BufferedEventStart(eventStart, config) ==
    DateOf(eventStart.ms - config.timeBufferMinutes * 60 * 1000)

\* new Date(eventEnd.getTime() + config.timeBufferMinutes * 60 * 1000)
BufferedEventEnd(eventEnd, config) ==
    DateOf(eventEnd.ms + config.timeBufferMinutes * 60 * 1000)

\* (mutation of IsValidCreationTime: exclusive bounds)
IsValidCreationTimeExclusive(createdAt, bufferedEventStart, bufferedEventEnd) ==
    /\ DateLt(bufferedEventStart, createdAt)
    /\ DateLt(createdAt, bufferedEventEnd)

\* createdAt >= bufferedEventStart && createdAt <= bufferedEventEnd
IsValidCreationTime(createdAt, bufferedEventStart, bufferedEventEnd) ==
    /\ DateLe(bufferedEventStart, createdAt)
    /\ DateLe(createdAt, bufferedEventEnd)

\* the timeOffset computation
TimeOffset(isValid, createdAt, bufferedEventStart, bufferedEventEnd) ==
    IF ~isValid
    THEN IF DateLt(createdAt, bufferedEventStart)
         THEN FloorMinutesBetween(bufferedEventStart, createdAt)
         ELSE FloorMinutesBetween(createdAt, bufferedEventEnd)
    ELSE Null

\* the ternary inside the failure message
MessageSide(createdAt, bufferedEventStart) ==
    IF DateLt(createdAt, bufferedEventStart) THEN "before" ELSE "after"

\* date.toISOString() throws a RangeError on an invalid Date
ISOStringThrows(date) == date.kind = "InvalidDate"
ToISOString(date) == [iso |-> date.ms]

validateFileCreationTime(fileMetadata, eventStart, eventEnd, config) ==
    LET createdAt == fileMetadata.createdAt
        sources == fileMetadata.possibleCreationSources
        creationSource == IF Len(sources) > 0
                          THEN [creationSource |-> sources[1]] ELSE <<>>
        bufferedEventStart == BufferedEventStart(eventStart, config)
        bufferedEventEnd == BufferedEventEnd(eventEnd, config)
        isValid == IsValidCreationTime(createdAt, bufferedEventStart, bufferedEventEnd)
        timeOffset == TimeOffset(isValid, createdAt, bufferedEventStart, bufferedEventEnd)
    IN
    IF \/ ISOStringThrows(createdAt)
       \/ ISOStringThrows(eventStart)
       \/ ISOStringThrows(eventEnd)
    THEN Throw("RangeError: Invalid time value")
    ELSE Return(
        [ isValid |-> isValid,
          createdAt |-> createdAt,
          details |->
              [ fileCreatedAt |-> ToISOString(createdAt),
                eventStart |-> ToISOString(eventStart),
                eventEnd |-> ToISOString(eventEnd),
                timeOffset |-> timeOffset,
                message |->
                    IF isValid
                    THEN [text |-> "File creation time is valid"] @@ creationSource
                    ELSE [text |-> "File was created outside the allowed time window",
                          minutes |-> timeOffset,
                          side |-> MessageSide(createdAt, bufferedEventStart)] ]
              @@ creationSource ])

(***************************************************************************)
(* Inputs of the file pipeline                                             *)
(***************************************************************************)
TimeStamps == { k * Tick : k \in 0..MaxTick }

\* a timestamp one default buffer beyond the last drawn one
FarTime == DEFAULT_VALIDATION_CONFIG.timeBufferMinutes * MsPerMinute + MaxTick * Tick

\* the clock reading of new Date()
ClockReadings == { MaxTick * Tick }

\* {} and every one-field record [field |-> v]
Opt(field, values) == { <<>> } \cup { [f \in {field} |-> v] : v \in values }

DateFieldSet == { dateFields[i] : i \in 1..Len(dateFields) }
FieldIndex(field) == CHOOSE i \in 1..Len(dateFields) : dateFields[i] = field

Unparseable == [parses |-> FALSE]
Parseable(ms) == [parses |-> TRUE, ms |-> ms]

\* payloads in which date tag number i, when it parses, reads i half minutes
DateTagChoices ==
    { t \in [DateFieldSet -> {"absent", "unparseable", "date"}] :
        Cardinality({ f \in DateFieldSet : t[f] # "absent" }) <= MaxExifTags }

DateTags(t) ==
    [ f \in { g \in DateFieldSet : t[g] # "absent" } |->
        [description |-> IF t[f] = "date"
                         THEN Parseable(FieldIndex(f) * Tick)
                         ELSE Unparseable] ]

CameraTags ==
    [ Quality |-> [description |-> 85],
      Make |-> [description |-> "Canon"],
      Model |-> [description |-> "EOS"],
      ISO |-> [description |-> 100] ]

ExifTagSets ==
    { DateTags(t) : t \in DateTagChoices }
    \cup { CameraTags,
           CameraTags @@ [DateTimeOriginal |-> [description |-> Parseable(Tick)]],
           CameraTags @@ [DateTime |-> [description |-> Unparseable]],
           [DateTimeOriginal |-> [camera |-> "raw"],
            CreateDate |-> [description |-> Parseable(2 * Tick)]] }

FileData ==
    { [readable |-> FALSE] } \cup { [readable |-> TRUE, tags |-> t] : t \in ExifTagSets }

MimeTypes ==
    { Mime("image", "jpeg"), Mime("image", "png"), Mime("image", "heic"),
      Mime("image", "heif"), Mime("image", "gif"), Mime("text", "plain"),
      [type |-> "IMG_"] }

FileSizes ==
    { 0,
      DEFAULT_VALIDATION_CONFIG.maxFileSizeInMB * BytesPerMB,
      DEFAULT_VALIDATION_CONFIG.maxFileSizeInMB * BytesPerMB + 1 }

LastModifiedDates == { Unparseable, Parseable(0), Parseable(FarTime) }

Files ==
    { n @@ m @@ s @@ d @@ l :
        n \in Opt("name", {"photo.jpg"}),
        m \in Opt("mimetype", MimeTypes),
        s \in Opt("size", FileSizes),
        d \in Opt("data", FileData),
        l \in Opt("lastModifiedDate", LastModifiedDates) }

\* the window of a stored event: event creation rejects an end before the start
EventWindows == { w \in TimeStamps \X TimeStamps : w[1] <= w[2] }

ExtractConfigs ==
    { [DEFAULT_VALIDATION_CONFIG EXCEPT !.requireOriginalPhoto = r] : r \in BOOLEAN }

TimeConfigs ==
    { [DEFAULT_VALIDATION_CONFIG EXCEPT !.timeBufferMinutes = b] :
        b \in {0, 1, DEFAULT_VALIDATION_CONFIG.timeBufferMinutes} }

ExtractCalls ==
    { [config |-> c, now |-> t] @@ f :
        c \in ExtractConfigs, t \in ClockReadings,
        f \in { <<>> } \cup { [file |-> x] : x \in Files } }

(***************************************************************************)
(* The file pipeline: a request extracts the metadata of a file, then      *)
(* validates its creation time against the event's window                  *)
(***************************************************************************)
ExtractFileMetadata ==
    /\ call # None
    /\ extracted = None
    /\ extracted' = extractFileMetadata(call)
    /\ UNCHANGED <<call, timeCall, timeResult, eventVars, uploadVars>>

ValidateFileCreationTime ==
    /\ extracted # None
    /\ ~extracted.threw
    /\ timeResult = None
    /\ \E window \in EventWindows, config \in TimeConfigs :
        LET eventStart == window[1]
            eventEnd == window[2]
        IN
        /\ timeCall' = [eventStart |-> DateOf(eventStart),
                        eventEnd |-> DateOf(eventEnd),
                        config |-> config]
        /\ timeResult' = validateFileCreationTime(extracted.value, DateOf(eventStart),
                                                  DateOf(eventEnd), config)
        /\ UNCHANGED <<call, extracted, eventVars, uploadVars>>

\* a request arrives with its file and configuration
Init ==
    /\ call \in ExtractCalls
    /\ extracted = None
    /\ timeCall = None
    /\ timeResult = None
    /\ eventCall = None
    /\ eventResult = None
    /\ uploads = None
    /\ request = None
    /\ response = None

Next ==
    \/ ExtractFileMetadata
    \/ ValidateFileCreationTime

Spec == Init /\ [][Next]_vars

(***************************************************************************)
(* validateEventTimes                                                      *)
(* A string is a sequence of one-character strings.  A Date built from     *)
(* local calendar fields is modelled on a local timeline without daylight  *)
(* saving shifts, counted in milliseconds from 1970-01-01 00:00 local.     *)
(***************************************************************************)
Digits == << "0", "1", "2", "3", "4", "5", "6", "7", "8", "9" >>

\* str.split(sep)
RECURSIVE SplitFrom(_, _, _, _)
SplitFrom(str, sep, i, piece) ==
    IF i > Len(str) THEN << piece >>
    ELSE IF str[i] = sep
         THEN << piece >> \o SplitFrom(str, sep, i + 1, <<>>)
         ELSE SplitFrom(str, sep, i + 1, Append(piece, str[i]))

Split(str, sep) == SplitFrom(str, sep, 1, <<>>)

\* Number(str) for a string of decimal digits
RECURSIVE NumberFrom(_, _, _)
NumberFrom(str, i, acc) ==
    IF i > Len(str) THEN acc
    ELSE NumberFrom(str, i + 1,
                    acc * 10 + (CHOOSE k \in 0..9 : Digits[k + 1] = str[i]))

Number(str) == NumberFrom(str, 1, 0)

\* str.split(sep).map(Number)
SplitNumbers(str, sep) ==
    LET pieces == Split(str, sep) IN [i \in 1..Len(pieces) |-> Number(pieces[i])]

MsPerDay == 24 * 60 * MsPerMinute

IsLeapYear(year) == (year % 4 = 0 /\ year % 100 # 0) \/ year % 400 = 0
DaysInYear(year) == IF IsLeapYear(year) THEN 366 ELSE 365
DaysInMonth(year, monthIndex) ==
    IF monthIndex = 1 THEN (IF IsLeapYear(year) THEN 29 ELSE 28)
    ELSE IF monthIndex \in {3, 5, 8, 10} THEN 30 ELSE 31

RECURSIVE DaysBeforeYear(_)
DaysBeforeYear(year) ==
    IF year <= 1970 THEN 0 ELSE DaysBeforeYear(year - 1) + DaysInYear(year - 1)

RECURSIVE DaysBeforeMonth(_, _)
DaysBeforeMonth(year, monthIndex) ==
    IF monthIndex <= 0 THEN 0
    ELSE DaysBeforeMonth(year, monthIndex - 1) + DaysInMonth(year, monthIndex - 1)

\* new Date(year, monthIndex, day, hours, minutes).getTime()
LocalTime(year, monthIndex, day, hours, minutes) ==
    (DaysBeforeYear(year) + DaysBeforeMonth(year, monthIndex) + (day - 1)) * MsPerDay
    + (hours * 60 + minutes) * MsPerMinute

\* the calendar fields of a time: <<getFullYear(), getMonth(), getDate()>>
RECURSIVE FieldsFromYear(_, _)
RECURSIVE FieldsFromMonth(_, _, _)
FieldsFromMonth(year, monthIndex, days) ==
    IF days < DaysInMonth(year, monthIndex)
    THEN << year, monthIndex, days + 1 >>
    ELSE FieldsFromMonth(year, monthIndex + 1, days - DaysInMonth(year, monthIndex))

FieldsFromYear(year, days) ==
    IF days < DaysInYear(year)
    THEN FieldsFromMonth(year, 0, days)
    ELSE FieldsFromYear(year + 1, days - DaysInYear(year))

CalendarFields(ms) == FieldsFromYear(1970, ms \div MsPerDay)

combineDateAndTime(dateStr, timeStr) ==
    LET date == SplitNumbers(dateStr, "-")
        time == SplitNumbers(timeStr, ":")
    IN  LocalTime(date[1], date[2] - 1, date[3], time[1], time[2])

StartDateError == "Start date cannot be in the past"
EndDateError == "End date cannot be before start date"
StartTimeError == "Start time cannot be in the past for today's date"
EndTimeError == "End time cannot be before start time on the same day"

\* the values validateEventTimes computes before its checks
EventTimes(startDate, endDate, startTime, endTime, now) ==
    LET startFields == SplitNumbers(startDate, "-")
        endFields == SplitNumbers(endDate, "-")
        nowFields == CalendarFields(now)
    IN  [ start |-> LocalTime(startFields[1], startFields[2] - 1, startFields[3], 0, 0),
          end |-> LocalTime(endFields[1], endFields[2] - 1, endFields[3], 0, 0),
          startTimeObj |-> combineDateAndTime(startDate, startTime),
          endTimeObj |-> combineDateAndTime(endDate, endTime),
          todayDate |-> LocalTime(nowFields[1], nowFields[2], nowFields[3], 0, 0) ]

\* (mutation of validateEventTimes: it stops at the first failing check)
validateEventTimesFirstOnly(startDate, endDate, startTime, endTime, now) ==
    LET t == EventTimes(startDate, endDate, startTime, endTime, now)
        errors ==
            IF t.start < t.todayDate THEN << StartDateError >>
            ELSE IF t.end < t.start THEN << EndDateError >>
            ELSE IF t.start = t.todayDate /\ t.startTimeObj < now
                 THEN << StartTimeError >>
            ELSE IF startDate = endDate /\ t.endTimeObj < t.startTimeObj
                 THEN << EndTimeError >>
            ELSE <<>>
    IN  [isValid |-> errors = <<>>, errors |-> errors]

\* now is the clock reading of new Date()
validateEventTimes(startDate, endDate, startTime, endTime, now) ==
    LET t == EventTimes(startDate, endDate, startTime, endTime, now)
        startDateErrors == IF t.start < t.todayDate
                           THEN << StartDateError >> ELSE <<>>
        endDateErrors == IF t.end < t.start
                         THEN << EndDateError >> ELSE <<>>
        startTimeErrors == IF t.start = t.todayDate /\ t.startTimeObj < now
                           THEN << StartTimeError >> ELSE <<>>
        endTimeErrors == IF startDate = endDate /\ t.endTimeObj < t.startTimeObj
                         THEN << EndTimeError >> ELSE <<>>
        errors == startDateErrors \o endDateErrors \o startTimeErrors \o endTimeErrors
    IN  [ isValid |-> Len(startDateErrors) = 0 /\ Len(endDateErrors) = 0
                      /\ Len(startTimeErrors) = 0 /\ Len(endTimeErrors) = 0,
          errors |-> errors ]

(***************************************************************************)
(* Inputs of validateEventTimes: well-formed YYYY-MM-DD and HH:mm strings   *)
(***************************************************************************)
Pad2(n) == << Digits[(n \div 10) + 1], Digits[(n % 10) + 1] >>
Pad4(n) == Pad2(n \div 100) \o Pad2(n % 100)

DateString(year, month, day) ==
    Pad4(year) \o << "-" >> \o Pad2(month) \o << "-" >> \o Pad2(day)
TimeString(hours, minutes) == Pad2(hours) \o << ":" >> \o Pad2(minutes)

DateStrings == { DateString(1970, 1, d) : d \in 1..MaxDay }
TimeStrings == { TimeString(0, m) : m \in 0..MaxMinute }
EventClockReadings ==
    { (d - 1) * MsPerDay + k * Tick : d \in 1..MaxDay, k \in 0..MaxNowTick }

EventCalls ==
    [ startDate : DateStrings, endDate : DateStrings,
      startTime : TimeStrings, endTime : TimeStrings,
      now : EventClockReadings ]

ValidateEventTimes ==
    /\ eventCall # None
    /\ eventResult = None
    /\ eventResult' = validateEventTimes(eventCall.startDate, eventCall.endDate,
                                         eventCall.startTime, eventCall.endTime,
                                         eventCall.now)
    /\ UNCHANGED <<eventCall, fileVars, uploadVars>>

\* an event-creation request arrives with its date and time strings
InitEvent ==
    /\ eventCall \in EventCalls
    /\ eventResult = None
    /\ call = None
    /\ extracted = None
    /\ timeCall = None
    /\ timeResult = None
    /\ uploads = None
    /\ request = None
    /\ response = None

NextEvent == ValidateEventTimes

SpecEvent == InitEvent /\ [][NextEvent]_vars

(***************************************************************************)
(* Upload controller: uploadFile, getAllUploads                            *)
(* The uploads collection is modelled by the number of records stored for  *)
(* each access token; the records of a token are numbered 1..uploads[token]*)
(* in insertion order.                                                     *)
(***************************************************************************)
Tokens == { "tokenA", "tokenB" }

limit == 20

\* uploadModel.find({token}).skip(skip).limit(limit): the records of the page
Find(collection, token, skip, lim) ==
    LET first == skip + 1
        last == IF collection[token] < skip + lim THEN collection[token] ELSE skip + lim
    IN  [ i \in 1..(IF last < first THEN 0 ELSE last - first + 1) |-> first + i - 1 ]

\* Math.ceil(countPages / limit)
CeilDiv(count, lim) == (count + lim - 1) \div lim

\* the truth value of an array reference: every object is truthy
IsTruthyArray(array) == TRUE

\* if (images || images.length === 0)
AnswersNotFound(images) == IsTruthyArray(images) \/ Len(images) = 0

\* req.query.page || 1
PageOf(query) == IF "page" \in DOMAIN query THEN query.page ELSE 1

\* the response of getAllUploads; dbOk is whether the queries succeed
getAllUploads(req, collection, dbOk) ==
    LET eventId == req.params.accessToken
        page == PageOf(req.query)
        skip == (page - 1) * limit
        images == Find(collection, eventId, skip, limit)
    IN  IF ~dbOk
        THEN [status |-> 500, message |-> "error.message"]
        ELSE IF AnswersNotFound(images)
        THEN [status |-> 404, message |-> "No images uploaded yet!!"]
        ELSE [ status |-> 200,
               message |-> "All Photos Retrieved",
               images |-> [ i \in 1..Len(images) |->
                              [record |-> images[i], url |-> "cloudinary.url"] ],
               currentPage |-> page,
               totalPages |-> CeilDiv(collection[eventId], limit) ]

\* uploadFile: one record is created per uploaded file, until a create or a save
\* fails; created is the number of records stored when the handler answers
UploadFile ==
    \E token \in Tokens, files \in 0..MaxFilesPerRequest, failed \in BOOLEAN :
    \E created \in 0..files :
        /\ failed => files > 0
        /\ ~failed => created = files
        /\ uploads[token] + created <= MaxUploads
        /\ request' = [ handler |-> "uploadFile",
                        validatedEvent |-> [accessToken |-> token],
                        uploadedFiles |-> files ]
        /\ uploads' = [uploads EXCEPT ![token] = @ + created]
        /\ response' = IF failed
                       THEN [status |-> 500, message |-> "failed"]
                       ELSE [status |-> 200, message |-> "Upload Successfull"]
        /\ UNCHANGED <<fileVars, eventVars>>

GetAllUploads ==
    \E token \in Tokens, query \in Opt("page", 1..MaxPage), dbOk \in BOOLEAN :
        LET req == [handler |-> "getAllUploads",
                    params |-> [accessToken |-> token],
                    query |-> query,
                    dbOk |-> dbOk]
        IN  /\ request' = req
            /\ response' = getAllUploads(req, uploads, dbOk)
            /\ UNCHANGED <<uploads, fileVars, eventVars>>

InitUploads ==
    /\ uploads = [t \in Tokens |-> 0]
    /\ request = None
    /\ response = None
    /\ call = None
    /\ extracted = None
    /\ timeCall = None
    /\ timeResult = None
    /\ eventCall = None
    /\ eventResult = None

NextUploads ==
    \/ UploadFile
    \/ GetAllUploads

SpecUploads == InitUploads /\ [][NextUploads]_vars

(***************************************************************************)
(* Vocabulary of the properties of the file pipeline                       *)
(***************************************************************************)
Extracted == extracted # None /\ ~extracted.threw
TimeReturned == timeResult # None /\ ~timeResult.threw

\* the bounds of the buffered window of the last validateFileCreationTime call
WindowLow == timeCall.eventStart.ms - timeCall.config.timeBufferMinutes * MsPerMinute
WindowHigh == timeCall.eventEnd.ms + timeCall.config.timeBufferMinutes * MsPerMinute

\* date tag number i of the file carries a date that parses
UsableTag(file, i) ==
    /\ dateFields[i] \in DOMAIN file.data.tags
    /\ "description" \in DOMAIN file.data.tags[dateFields[i]]
    /\ file.data.tags[dateFields[i]].description.parses

\* the file is an image whose embedded metadata can be read and has a usable date
HasExifDate(file) ==
    /\ StartsWithImage(file.mimetype)
    /\ file.data.readable
    /\ \E i \in 1..Len(dateFields) : UsableTag(file, i)

FirstUsableTag(file) ==
    CHOOSE i \in 1..Len(dateFields) :
        UsableTag(file, i) /\ \A j \in 1..(i - 1) : ~UsableTag(file, j)

InSeq(x, seq) == \E i \in 1..Len(seq) : seq[i] = x

\* C1: validateFileCreationTime returns isValid = true exactly when createdAt lies
\* in the closed window [eventStart - buffer, eventEnd + buffer]
C1_InclusiveWindow ==
    TimeReturned =>
        LET createdAt == extracted.value.createdAt.ms IN
        timeResult.value.isValid = (WindowLow <= createdAt /\ createdAt <= WindowHigh)

\* C1 witness: a file created exactly on the buffered start, before the event's
\* own start, was found valid
C1_Witness ==
    /\ TimeReturned
    /\ timeCall.config.timeBufferMinutes > 0
    /\ extracted.value.createdAt.ms = WindowLow
    /\ timeResult.value.isValid

\* C2: timeOffset is null exactly when the file is valid; when it is not,
\* timeOffset is the number of whole minutes, rounded down and never negative,
\* between createdAt and the violated bound, and the message says "before" when
\* createdAt is earlier than the buffered start and "after" when it is later
\* than the buffered end
C2_TimeOffset ==
    TimeReturned =>
        LET createdAt == extracted.value.createdAt.ms
            result == timeResult.value
            offset == result.details.timeOffset
            message == result.details.message
            distance == IF createdAt < WindowLow
                        THEN WindowLow - createdAt ELSE createdAt - WindowHigh
        IN  /\ (offset = Null) <=> result.isValid
            /\ ~result.isValid =>
                /\ offset.kind = "number"
                /\ offset.n >= 0
                /\ offset.n * MsPerMinute <= distance
                /\ distance < (offset.n + 1) * MsPerMinute
                /\ message.minutes = offset
                /\ (message.side = "before") <=> (createdAt < WindowLow)
                /\ (message.side = "after") <=> (createdAt > WindowHigh)

\* C2 witness: a file one and a half minutes before the buffered start was
\* reported one minute before the window
C2_Witness ==
    /\ TimeReturned
    /\ ~timeResult.value.isValid
    /\ WindowLow - extracted.value.createdAt.ms = MsPerMinute + Tick
    /\ timeResult.value.details.timeOffset = Num(1)
    /\ timeResult.value.details.message.side = "before"

\* C3: the returned metadata has createdAt set and exactly one creation source,
\* chosen by priority: EXIF with the date of the first usable date tag, else
\* lastModifiedDate if the file carries one, else the current time
C3_SourcePriority ==
    Extracted =>
        LET file == call.file
            metadata == extracted.value
        IN  /\ ~IsNullish(metadata.createdAt)
            /\ Len(metadata.possibleCreationSources) = 1
            /\ IF HasExifDate(file)
               THEN /\ metadata.possibleCreationSources = << "EXIF" >>
                    /\ metadata.createdAt =
                         DateOf(file.data.tags[dateFields[FirstUsableTag(file)]].description.ms)
               ELSE IF "lastModifiedDate" \in DOMAIN file
               THEN /\ metadata.possibleCreationSources = << "lastModifiedDate" >>
                    /\ metadata.createdAt = NewDate(file.lastModifiedDate)
               ELSE /\ metadata.possibleCreationSources = << "current" >>
                    /\ metadata.createdAt = DateOf(call.now)

\* C3 witness: an image with two usable date tags and a lastModifiedDate got the
\* date of the earlier tag
C3_Witness ==
    /\ Extracted
    /\ HasExifDate(call.file)
    /\ "lastModifiedDate" \in DOMAIN call.file
    /\ \E i, j \in 1..Len(dateFields) :
        i < j /\ UsableTag(call.file, i) /\ UsableTag(call.file, j)
    /\ extracted.value.possibleCreationSources = << "EXIF" >>

\* C5: with requireOriginalPhoto, a file without a usable embedded date is
\* returned with a non-empty validationErrors
C5_RequireOriginalRejects ==
    (Extracted /\ call.config.requireOriginalPhoto /\ ~HasExifDate(call.file))
        => extracted.value.validationErrors # <<>>

\* C6: extractFileMetadata throws exactly when the file, or one of its name,
\* mimetype, size and data, is absent
C6_ThrowsIffAbsent ==
    extracted # None =>
        (extracted.threw <=>
            \/ "file" \notin DOMAIN call
            \/ \E p \in {"name", "mimetype", "size", "data"} : p \notin DOMAIN call.file)

\* the errors a returned metadata may carry, each for its own reason
OnlyOwnErrors(file, config, metadata) ==
    \A i \in 1..Len(metadata.validationErrors) :
        LET e == metadata.validationErrors[i] IN
        \/ e = SizeError /\ file.size > config.maxFileSizeInMB * BytesPerMB
        \/ e = TypeError /\ ~InSeq(file.mimetype, config.allowedMimeTypes)
        \/ /\ e = OriginalPhotoError
           /\ config.requireOriginalPhoto
           /\ metadata.possibleCreationSources = << "current" >>

FellBack(metadata) ==
    \/ metadata.possibleCreationSources = << "lastModifiedDate" >>
    \/ metadata.possibleCreationSources = << "current" >>

\* C7 (as stated): for an image whose embedded metadata cannot be read or has no
\* usable date, the warning "No EXIF data found" is pushed, no error is added
\* for that reason, and the fallback chain runs
C7_WarnsWhenNothingUsable ==
    (Extracted /\ StartsWithImage(call.file.mimetype) /\ ~HasExifDate(call.file)) =>
        /\ InSeq(NoExifWarning, extracted.value.validationWarnings)
        /\ OnlyOwnErrors(call.file, call.config, extracted.value)
        /\ FellBack(extracted.value)

\* C7 (amended): for an image, the warning "No EXIF data found" is pushed exactly
\* when reading the embedded metadata throws; when the read throws or finds no
\* usable date, no error is added for that reason and the fallback chain runs
C7_WarnsWhenReadThrows ==
    (Extracted /\ StartsWithImage(call.file.mimetype)) =>
        /\ InSeq(NoExifWarning, extracted.value.validationWarnings)
              <=> ~call.file.data.readable
        /\ ~HasExifDate(call.file) =>
              /\ OnlyOwnErrors(call.file, call.config, extracted.value)
              /\ FellBack(extracted.value)

\* C7 witness: an image whose metadata was read, without a usable date, came back
\* without the warning and with a fallback source
C7_Witness ==
    /\ Extracted
    /\ StartsWithImage(call.file.mimetype)
    /\ call.file.data.readable
    /\ ~HasExifDate(call.file)
    /\ ~InSeq(NoExifWarning, extracted.value.validationWarnings)
    /\ FellBack(extracted.value)

\* C8: under the default configuration the type error is present exactly when
\* the mimetype is none of image/jpeg, image/png, image/heic, image/heif
C8_DefaultAllowedTypes ==
    (Extracted /\ call.config = DEFAULT_VALIDATION_CONFIG) =>
        (InSeq(TypeError, extracted.value.validationErrors)
            <=> call.file.mimetype \notin
                    { Mime("image", "jpeg"), Mime("image", "png"),
                      Mime("image", "heic"), Mime("image", "heif") })

\* C9: validateFileCreationTime, called on a metadata that extractFileMetadata
\* returned, returns without throwing and its createdAt is a real timestamp
C9_NeverRaises ==
    timeResult # None =>
        /\ ~timeResult.threw
        /\ timeResult.value.createdAt.kind = "Date"

(***************************************************************************)
(* Vocabulary of the properties of validateEventTimes                      *)
(***************************************************************************)
DigitOf(c) == CHOOSE k \in 0..9 : Digits[k + 1] = c
TwoDigits(str, i) == 10 * DigitOf(str[i]) + DigitOf(str[i + 1])

\* <<year, month, day>> of a YYYY-MM-DD string, read off its columns
DateKey(dateStr) ==
    << 100 * TwoDigits(dateStr, 1) + TwoDigits(dateStr, 3),
       TwoDigits(dateStr, 6), TwoDigits(dateStr, 9) >>

\* minute of the day of an HH:mm string
MinuteOfDay(timeStr) == 60 * TwoDigits(timeStr, 1) + TwoDigits(timeStr, 4)

KeyLess(a, b) ==
    \/ a[1] < b[1]
    \/ a[1] = b[1] /\ a[2] < b[2]
    \/ a[1] = b[1] /\ a[2] = b[2] /\ a[3] < b[3]

\* the date of the clock reading (the readings drawn lie in January 1970) and
\* the milliseconds elapsed since its midnight
TodayKey(now) == << 1970, 1, (now \div MsPerDay) + 1 >>
SinceMidnight(now) == now % MsPerDay

ExpectedEventErrors(c) ==
    LET startKey == DateKey(c.startDate)
        endKey == DateKey(c.endDate)
        today == TodayKey(c.now)
    IN  (IF KeyLess(startKey, today) THEN << StartDateError >> ELSE <<>>)
        \o (IF KeyLess(endKey, startKey) THEN << EndDateError >> ELSE <<>>)
        \o (IF /\ startKey = today
               /\ MinuteOfDay(c.startTime) * MsPerMinute < SinceMidnight(c.now)
            THEN << StartTimeError >> ELSE <<>>)
        \o (IF /\ startKey = endKey
               /\ MinuteOfDay(c.endTime) < MinuteOfDay(c.startTime)
            THEN << EndTimeError >> ELSE <<>>)

\* C4: validateEventTimes returns, in order and without stopping at the first,
\* exactly the errors whose condition holds (start date before today, end date
\* before start date, start today and already passed, same day and end before
\* start), and isValid exactly when there is none
C4_EventErrors ==
    eventResult # None =>
        /\ eventResult.errors = ExpectedEventErrors(eventCall)
        /\ eventResult.isValid <=> (eventResult.errors = <<>>)

\* C4 witness: an event starting today at a minute already passed and ending
\* earlier the same day got both errors
C4_Witness ==
    /\ eventResult # None
    /\ eventResult.errors = << StartTimeError, EndTimeError >>
    /\ ~eventResult.isValid

(***************************************************************************)
(* Properties of the upload controller                                     *)
(***************************************************************************)
\* the number of records the query of the last getAllUploads request returned
ReturnedRecords ==
    LET stored == uploads[request.params.accessToken]
        skipped == (PageOf(request.query) - 1) * limit
        left == IF stored > skipped THEN stored - skipped ELSE 0
    IN  IF left > limit THEN limit ELSE left

\* C10: getAllUploads answers 404 only when its query returned no record; when
\* the query returned at least one record it answers 200 with that page of
\* images, currentPage and totalPages
C10_NotFoundOnlyWhenEmpty ==
    (request # None /\ request.handler = "getAllUploads" /\ request.dbOk) =>
        /\ response.status = 404 => ReturnedRecords = 0
        /\ ReturnedRecords > 0 =>
            /\ response.status = 200
            /\ Len(response.images) = ReturnedRecords
            /\ response.currentPage = PageOf(request.query)
            /\ response.totalPages * limit >= uploads[request.params.accessToken]

====
